---- MODULE Spec2Model ----
(***************************************************************************)
(* Ingestion and scrape-job orchestration of the news scraper:            *)
(*   - the ingestion trigger   (api/themes/[slug]/ingestion/trigger)       *)
(*   - the extraction worker   (api/worker/scrape/route.ts, the file      *)
(*                              src/unnamed/part_007)                      *)
(*   - the parent re-check     (checkAndUpdateIngestionJobStatus, same    *)
(*                              file)                                      *)
(*   - the daily budget counter (DailyBudgetUsage)                         *)
(* Every await on the database or the network is an interleaving point;   *)
(* consecutive statements are merged into one action only when at most    *)
(* one of them reads or writes state that another request can see.        *)
(***************************************************************************)
EXTENDS Integers, FiniteSets, Sequences, TLC

\* ---------------------------------------------------------------- bounds
MaxJobs == 2      \* trigger requests issued in one behaviour
MaxUnits == 2     \* ScrapeJob rows that can be created in one behaviour
MaxUrls == 2      \* candidates the Aggregator returns to one trigger
MaxTexts == 2     \* distinct whitespace-normalized page texts
MaxFaults == 1    \* thrown database / network errors in one behaviour
DailyLimit == 2   \* ThemeConfig.dailyExtractionBudget of the active config
MaxTerms == 2     \* subtopics of the theme
MaxArticles == 2   \* articles in one response of the candidate source
MaxPollUnits == 21 \* ScrapeJobs of the job whose status is polled
SmallPollUnits == 3
MaxConfigs == 3    \* ThemeConfig rows of the theme
MaxEditors == 2    \* concurrent requests that save a configuration
MaxQueries == 1    \* distinct query strings built from the subtopics
MaxClientJobs == 2 \* jobs started from one browser session
MaxSlugs == 2      \* themes whose pages start a job

\* the trigger's hard-coded fallback list has three URLs
MockUrlCount == 3

Jobs == 1..MaxJobs
Units == 1..MaxUnits
Texts == 1..MaxTexts
Themes == {"t1"}

\* the keys of DailyBudgetUsage: (theme, today) for each theme, and one
\* counter of another theme or another day
BudgetKeys == Themes \cup {"other"}

Min(a, b) == IF a < b THEN a ELSE b
Max(a, b) == IF a > b THEN a ELSE b

\* queryGDELT: for (let attempt = 1; attempt <= 3; attempt++)
MaxAttempts == 3

\* batchSubtopics: const MAX_KEYWORD_CHARS = 200
MAX_KEYWORD_CHARS == 200

\* the url field of an article of a response: missing or empty (0), an
\* http URL (1..MaxUrls), a string that is no http URL, or no string
NoUrl == 0
UrlIds == 1..MaxUrls
NonHttp == MaxUrls + 1
NonString == MaxUrls + 2
UrlValues == NoUrl..NonString

\* the articles of one response, in order
Responses == UNION {[1..n -> UrlValues] : n \in 0..MaxArticles}

\* subtopic names: the length of the trimmed lower-case name and whether
\* batchSubtopics counts quotes for it, then the same for the name that
\* translateToEnglish returns for it ("bovespa" -> "Bovespa" and "juros" ->
\* "interest rates" are entries of its fallback map, the long phrase is
\* returned as it is)
Subtopics ==
  {[name |-> "bovespa", len |-> 7, quotes |-> FALSE, enLen |-> 7, enQuotes |-> FALSE],
   [name |-> "juros", len |-> 5, quotes |-> FALSE, enLen |-> 14, enQuotes |-> TRUE],
   [name |-> "phrase", len |-> 185, quotes |-> TRUE, enLen |-> 185, enQuotes |-> TRUE]}

SubtopicLists == UNION {[1..n -> Subtopics] : n \in 0..MaxTerms}

NoReq == [batch |-> 0, attempt |-> 0, at |-> 0]
ClientJobs == 1..MaxClientJobs
Slugs == 1..MaxSlugs
Editors == 1..MaxEditors
\* values of dailyExtractionBudget that a saved configuration may carry
Ceilings == (DailyLimit - 1)..(DailyLimit + 1)
Queries == 0..MaxQueries
\* themes/route.ts 66-75: the config created with the theme, version 1
FirstConfig == [version |-> 1, ceiling |-> DailyLimit, query |-> 0]

\* the statuses written to ScrapeJob.status (trigger/route.ts 191,
\* worker/scrape/route.ts 87, 136, 165, 255, 292)
UnitStatuses == {"pending", "scraping", "extracted", "skipped", "failed"}
\* the sizes of the polled job: none, a few, or many units
PollTotals == 0..SmallPollUnits \cup {MaxPollUnits}
NoUnits == [st \in UnitStatuses |-> 0]
\* a number as the endpoint computes it, num / den
Frac(n, d) == [num |-> n, den |-> d]
NoProgress == Frac(0, 0)
NoCall == [kind |-> "none", attempts |-> 0, fails |-> 0]

VARIABLES
  ingStatus,       \* IngestionJob.status, "none" before the row exists
  ingTheme,        \* IngestionJob.themeId
  ingCompletedAt,  \* IngestionJob.completedAt is set
  tpc,             \* position of the trigger request that owns the job
  tUsed, tLimit,   \* budget.used / budget.limit as read by that trigger
  tUrls,           \* urls.length of that trigger after the candidate query
  sjJob,           \* ScrapeJob.ingestionJobId, 0 before the row exists
  sjStatus,        \* ScrapeJob.status
  docs,            \* ExtractedDocument rows: [sj, theme, hash]
  newsItems,       \* NewsItem rows, by the ScrapeJob of their document
  attempts,        \* ExtractionAttempt rows: <<scrapeJobId, status>>
  budget,          \* DailyBudgetUsage row of today, per theme
  rpc,             \* position of the budget reset request of each theme
  wpc,             \* position of the worker request of each ScrapeJob
  wText,           \* dedupHash computed by that request, 0 = none
  wExisting,       \* result of its extractedDocument.findFirst
  wIng,            \* its local ingestionJobId, 0 = undefined
  wRet,            \* where it continues after the re-check
  wNotify,         \* history: "owed" after a terminal write, "called" after the re-check is invoked
  faults,          \* thrown errors so far
  incs,            \* history: budget increments done by the workers of each job
  overlapTerm,     \* history: a trigger was admitted while an earlier run had a non-terminal unit
  overlapRet,      \* history: a trigger was admitted while an earlier run had an unfinished request
  lastTerm         \* history: the job was running at the last terminal write of one of its units

\* one call of the Aggregator, getGDELTUrls (lib/gdelt.ts, the file
\* src/unnamed/part_010)
VARIABLES
  gpc,             \* position of the call
  gJob,            \* the job whose trigger made the call, 0 = none
  gBatches,        \* batches: the subtopics split by batchSubtopics
  gBatch,          \* the loop index i, counted from 1
  gAttempt,        \* attempt of the queryGDELT call in progress
  gAll,            \* allArticles: [url, batch], batch = the batch that returned it
  gResult,         \* the list the call returns
  gNow,            \* seconds spent so far in awaited timers
  gReq, gPrevReq,  \* the last two requests sent upstream: [batch, attempt, at]
  gWaits,          \* history: timer delays awaited by the queryGDELT call in progress
  gFails,          \* history: failed attempts of that call
  gCall,           \* history: how the last finished queryGDELT call ended
  gHeldBy,         \* history: per URL, the batches whose responses held it
  gFailedBatches   \* history: batches whose queryGDELT call threw

gdeltVars == <<gpc, gJob, gBatches, gBatch, gAttempt, gAll, gResult, gNow, gReq,
               gPrevReq, gWaits, gFails, gCall, gHeldBy, gFailedBatches>>

\* one IngestionJob as the status endpoint reads it
\* (ingestion/[jobId]/status/route.ts)
VARIABLES
  vUnits,          \* the number of its ScrapeJobs in each status
  vProgress        \* progress of the last response, NoProgress before it

statusVars == <<vUnits, vProgress>>

\* the ThemeConfig rows of the theme and the requests that add one
\* (themes/[slug]/config/route.ts, the file src/unnamed/part_002)
VARIABLES
  cfg,             \* the rows in the order of their creation: [version, ceiling, query]
  cReq             \* per request: its position and the version it read as last

configVars == <<cfg, cReq>>

\* the polling client (contexts/extraction-progress-context.tsx) and the
\* jobs it polls
VARIABLES
  uJob,            \* progress.jobId, 0 = null
  uStatus,         \* progress.status
  uSlug,           \* currentSlug, 0 = null
  uTimers,         \* scheduled hide timers: [job, slug]
  uFetches,        \* status requests awaiting their response: [job, slug]
  uServer          \* per job, the status its status endpoint answers

clientVars == <<uJob, uStatus, uSlug, uTimers, uFetches, uServer>>
uiVars == <<statusVars, configVars, clientVars>>

vars == <<ingStatus, ingTheme, ingCompletedAt, tpc, tUsed, tLimit, tUrls, sjJob,
          sjStatus, docs, newsItems, attempts, budget, rpc, wpc, wText,
          wExisting, wIng, wRet, wNotify, faults, incs, overlapTerm, overlapRet,
          lastTerm, gdeltVars, uiVars>>

trigVars == <<ingStatus, ingTheme, ingCompletedAt, tpc, tUsed, tLimit, tUrls>>
storeVars == <<sjJob, sjStatus, docs, newsItems, attempts, budget, rpc>>
workerLocals == <<wText, wExisting, wIng, wRet>>
histVars == <<incs, overlapTerm, overlapRet, lastTerm>>

TerminalUnit == {"extracted", "failed", "skipped"}
TerminalJob == {"completed", "failed"}

UnitsOf(j) == {u \in Units : sjJob[u] = j}
FreeUnits == {u \in Units : sjJob[u] = 0}

\* a worker request that will take no further step
Returned(u) == wpc[u] \in {"done", "lost"}

\* DailyBudgetUsage of today before the first trigger of the behaviour: no
\* row yet, or the row that earlier admitted runs of the day have left
BudgetRows ==
  {[exists |-> FALSE, used |-> 0, limit |-> 0]} \cup
  {[exists |-> TRUE, used |-> n, limit |-> DailyLimit] : n \in 0..DailyLimit}

\* the counter of another theme or day: a row that is used up
OtherRow == [exists |-> TRUE, used |-> DailyLimit, limit |-> DailyLimit]

Init ==
  /\ ingStatus = [j \in Jobs |-> "none"]
  /\ ingTheme = [j \in Jobs |-> "t1"]
  /\ ingCompletedAt = [j \in Jobs |-> FALSE]
  /\ tpc = [j \in Jobs |-> "idle"]
  /\ tUsed = [j \in Jobs |-> 0]
  /\ tLimit = [j \in Jobs |-> 0]
  /\ tUrls = [j \in Jobs |-> 0]
  /\ sjJob = [u \in Units |-> 0]
  /\ sjStatus = [u \in Units |-> "none"]
  /\ docs = {}
  /\ newsItems = {}
  /\ attempts = {}
  /\ budget \in {b \in [BudgetKeys -> BudgetRows] : b["other"] = OtherRow}
  /\ rpc = [t \in Themes |-> "idle"]
  /\ wpc = [u \in Units |-> "idle"]
  /\ wText = [u \in Units |-> 0]
  /\ wExisting = [u \in Units |-> FALSE]
  /\ wIng = [u \in Units |-> 0]
  /\ wRet = [u \in Units |-> "done"]
  /\ wNotify = [u \in Units |-> "none"]
  /\ faults = 0
  /\ incs = [j \in Jobs |-> 0]
  /\ overlapTerm = FALSE
  /\ overlapRet = FALSE
  /\ lastTerm = [j \in Jobs |-> FALSE]
  /\ gpc = "idle"
  /\ gJob = 0
  /\ gBatches = <<>>
  /\ gBatch = 0
  /\ gAttempt = 0
  /\ gAll = <<>>
  /\ gResult = <<>>
  /\ gNow = 0
  /\ gReq = NoReq
  /\ gPrevReq = NoReq
  /\ gWaits = <<>>
  /\ gFails = 0
  /\ gCall = NoCall
  /\ gHeldBy = [x \in UrlValues |-> {}]
  /\ gFailedBatches = 0
  /\ vUnits = NoUnits
  /\ vProgress = NoProgress
  /\ cfg = <<FirstConfig>>
  /\ cReq = [e \in Editors |-> [pc |-> "idle", last |-> 0]]
  /\ uJob = 0
  /\ uStatus = "idle"
  /\ uSlug = 0
  /\ uTimers = {}
  /\ uFetches = {}
  /\ uServer = [j \in ClientJobs |-> "none"]

\* ------------------------------------------------------------- the trigger

\* findFirst(orderBy version desc): a row of the highest version
LatestRows ==
  {i \in DOMAIN cfg : \A k \in DOMAIN cfg : cfg[k].version <= cfg[i].version}

\* config.dailyExtractionBudget as a request may read it
LatestCeilings == {cfg[i].ceiling : i \in LatestRows}

\* trigger/route.ts 47-62: findUnique, and create {used: 0, limit} when absent
BudgetOfToday(t, ceiling) ==
  IF budget[t].exists THEN budget[t]
  ELSE [exists |-> TRUE, used |-> 0, limit |-> ceiling]

\* an earlier run of theme t still has a unit that is not terminal,
\* or has not yet created its units
RunOpenTerm(t) ==
  \E k \in Jobs :
    /\ ingTheme[k] = t
    /\ \/ tpc[k] \in {"admitted", "created"}
       \/ \E u \in UnitsOf(k) : sjStatus[u] \notin TerminalUnit

\* an earlier run of theme t still has a request that has not returned
RunOpenRet(t) ==
  \E k \in Jobs :
    /\ ingTheme[k] = t
    /\ \/ tpc[k] \in {"admitted", "created"}
       \/ \E u \in UnitsOf(k) : ~Returned(u)

\* the 429 answer given only above the limit
BudgetExceeded_Strict(b) == b.used > b.limit

\* trigger/route.ts 64: the admission test on the row read at 47-62
BudgetExceeded(b) == b.used >= b.limit

\* trigger/route.ts 44-78: admission check, then ingestionJob.create
\* (the slots of Jobs are used in order)
TriggerAdmit(j, t) ==
  /\ tpc[j] = "idle"
  /\ \A k \in Jobs : k < j => tpc[k] # "idle"
  /\ \E ceiling \in LatestCeilings :
     LET b == BudgetOfToday(t, ceiling) IN
     /\ budget' = [budget EXCEPT ![t] = b]
     /\ tUsed' = [tUsed EXCEPT ![j] = b.used]
     /\ tLimit' = [tLimit EXCEPT ![j] = b.limit]
     /\ ingTheme' = [ingTheme EXCEPT ![j] = t]
     /\ IF BudgetExceeded(b)
        THEN /\ tpc' = [tpc EXCEPT ![j] = "rejected"]
             /\ UNCHANGED <<ingStatus, overlapTerm, overlapRet>>
        ELSE /\ tpc' = [tpc EXCEPT ![j] = "admitted"]
             /\ ingStatus' = [ingStatus EXCEPT ![j] = "pending"]
             /\ overlapTerm' = (overlapTerm \/ RunOpenTerm(t))
             /\ overlapRet' = (overlapRet \/ RunOpenRet(t))
  /\ UNCHANGED <<ingCompletedAt, tUrls, sjJob, sjStatus, docs, newsItems,
                 attempts, wpc, workerLocals, wNotify, faults, incs, lastTerm>>
  /\ UNCHANGED <<rpc, gdeltVars, uiVars>>

\* the candidate list used whole, without the slice to the remaining budget
UrlsToProcess_NoSlice(j, nUrls) == nUrls

\* the candidate list cut to the limit, not to what is left of it
UrlsToProcess_ByLimit(j, nUrls) == Min(nUrls, tLimit[j])

\* trigger/route.ts 81, 162: urls.slice(0, remainingBudget)
UrlsToProcess(j, nUrls) == Min(nUrls, tLimit[j] - tUsed[j])

\* trigger/route.ts 83: maxUrls, the limit passed to getGDELTUrls
MaxUrlsOf(j, ceiling) == Min(tLimit[j] - tUsed[j], ceiling)

\* the n lowest free ScrapeJob ids
RECURSIVE Lowest(_, _)
Lowest(S, n) ==
  IF n = 0 \/ S = {} THEN {}
  ELSE LET m == CHOOSE x \in S : \A y \in S : x <= y
       IN {m} \cup Lowest(S \ {m}, n - 1)

\* the trigger responds on an empty list without updating the job
CompleteEmpty_LeftPending(j) ==
  /\ tpc' = [tpc EXCEPT ![j] = "done"]
  /\ UNCHANGED <<ingStatus, ingCompletedAt, sjJob, sjStatus, wpc, faults>>

\* trigger/route.ts 164-177: no URL to process
CompleteEmpty(j) ==
  /\ ingStatus' = [ingStatus EXCEPT ![j] = "completed"]
  /\ tpc' = [tpc EXCEPT ![j] = "done"]
  /\ UNCHANGED <<ingCompletedAt, sjJob, sjStatus, wpc, faults>>

\* trigger/route.ts 185-218: scrapeJob.create for each URL, then one
\* fire-and-forget worker request per ScrapeJob; the requests of `lost`
\* are rejected and only logged
CreateAndDispatch(j, n, lost) ==
  LET new == Lowest(FreeUnits, n) IN
  /\ sjJob' = [u \in Units |-> IF u \in new THEN j ELSE sjJob[u]]
  /\ sjStatus' = [u \in Units |-> IF u \in new THEN "pending" ELSE sjStatus[u]]
  /\ wpc' = [u \in Units |-> IF u \in new
                             THEN (IF u \in lost THEN "lost" ELSE "start")
                             ELSE wpc[u]]
  /\ faults' = faults + Cardinality(lost \cap new)
  /\ tpc' = [tpc EXCEPT ![j] = "created"]
  /\ UNCHANGED <<ingStatus, ingCompletedAt>>

FetchOutcome(j, n) ==
  /\ n <= Cardinality(FreeUnits)
  /\ IF n = 0 THEN CompleteEmpty(j)
     ELSE \E lost \in SUBSET Lowest(FreeUnits, n) :
            /\ faults + Cardinality(lost) <= MaxFaults
            /\ CreateAndDispatch(j, n, lost)
  /\ UNCHANGED <<ingTheme, tUsed, tLimit, docs, newsItems, attempts, budget,
                 workerLocals, wNotify, histVars>>

\* trigger/route.ts 96-142: getGDELTUrls returned nUrls candidates
TriggerFetch(j, nUrls) ==
  /\ tpc[j] = "admitted"
  /\ tUrls' = [tUrls EXCEPT ![j] = nUrls]
  /\ FetchOutcome(j, UrlsToProcess(j, nUrls))
  /\ UNCHANGED <<rpc, gdeltVars, uiVars>>

\* trigger/route.ts 152-156: the mock list cut to min(remainingBudget, 3)
MockUrls(j) == Min(tLimit[j] - tUsed[j], MockUrlCount)

\* trigger/route.ts 143-159: getGDELTUrls threw, the mock URLs are used
TriggerFallback(j) ==
  /\ tpc[j] = "admitted"
  /\ tUrls' = [tUrls EXCEPT ![j] = MockUrls(j)]
  /\ FetchOutcome(j, UrlsToProcess(j, MockUrls(j)))
  /\ UNCHANGED <<rpc, gdeltVars, uiVars>>

\* trigger/route.ts 220-223: unconditional update to "running"
TriggerSetRunning(j) ==
  /\ tpc[j] = "created"
  /\ ingStatus' = [ingStatus EXCEPT ![j] = "running"]
  /\ tpc' = [tpc EXCEPT ![j] = "done"]
  /\ UNCHANGED <<ingTheme, ingCompletedAt, tUsed, tLimit, tUrls, sjJob,
                 sjStatus, docs, newsItems, attempts, budget, wpc,
                 workerLocals, wNotify, faults, histVars>>
  /\ UNCHANGED <<rpc, gdeltVars, uiVars>>

\* ------------------------------------------------- the parent re-check

\* only extracted units count as finished
ShouldComplete_OnlyExtracted(j) ==
  /\ ingStatus[j] = "running"
  /\ \A u \in UnitsOf(j) : sjStatus[u] = "extracted"

\* some() in place of every(): one terminal ScrapeJob completes the job
ShouldComplete_Some(j) ==
  /\ ingStatus[j] = "running"
  /\ \/ UnitsOf(j) = {}
     \/ \E u \in UnitsOf(j) : sjStatus[u] \in TerminalUnit

\* the early return on a status other than "running" left out
ShouldComplete_AnyStatus(j) ==
  \A u \in UnitsOf(j) : sjStatus[u] \in TerminalUnit

\* worker/scrape/route.ts 27-51: the decision taken on the rows read by
\* findUnique(include scrapeJobs): only a running job is completed, when it
\* has no ScrapeJob or every ScrapeJob is extracted, failed or skipped
ShouldComplete(j) ==
  /\ ingStatus[j] = "running"
  /\ \A u \in UnitsOf(j) : sjStatus[u] \in TerminalUnit

\* every request goes on to the budget upsert after its re-check
AfterCheck_Budget(u) == "budget"

\* where a request continues after its re-check returned
AfterCheck(u) == IF wRet[u] = "budget" THEN "budget" ELSE "done"

\* the re-check threw: inside the catch block the error is swallowed
\* (route.ts 298-300), elsewhere the catch block runs (route.ts 281)
AfterThrow(u) == IF wRet[u] = "cdone" THEN "done" ELSE "catch"

\* ------------------------------------------------------------ the worker

\* history kept with a terminal write of unit u: was its job running
TerminalWrite(u) ==
  lastTerm' = [lastTerm EXCEPT ![sjJob[u]] =
                 ingStatus[sjJob[u]] \in {"running", "completed"}]

\* worker/scrape/route.ts 77-88: findFirst of the ScrapeJob, then the
\* unconditional update to "scraping"; findFirst may throw before
\* ingestionJobId is assigned
WorkerStart(u) ==
  /\ wpc[u] = "start"
  /\ \/ /\ wIng' = [wIng EXCEPT ![u] = sjJob[u]]
        /\ sjStatus' = [sjStatus EXCEPT ![u] = "scraping"]
        /\ wpc' = [wpc EXCEPT ![u] = "extract"]
        /\ UNCHANGED faults
     \/ /\ faults < MaxFaults
        /\ faults' = faults + 1
        /\ wpc' = [wpc EXCEPT ![u] = "catch"]
        /\ UNCHANGED <<wIng, sjStatus>>
  /\ UNCHANGED <<trigVars, sjJob, docs, newsItems, attempts, budget, wText,
                 wExisting, wRet, wNotify, histVars>>
  /\ UNCHANGED <<rpc, gdeltVars, uiVars>>

\* worker/scrape/route.ts 154-161: is there an ExtractedDocument of the
\* theme with this dedupHash
DocExists(t, h) == \E d \in docs : d.theme = t /\ d.hash = h

\* worker/scrape/route.ts 90-161: extractArticle raced against the 30 s
\* timeout; a throw or the timeout goes to the catch block, no result is
\* recorded as a failed attempt and a failed unit, a result is recorded as
\* a successful attempt and its fingerprint is looked up
WorkerExtract(u) ==
  /\ wpc[u] = "extract"
  /\ \/ /\ wpc' = [wpc EXCEPT ![u] = "catch"]
        /\ UNCHANGED <<attempts, sjStatus, wText, wExisting, wRet, wNotify,
                       lastTerm>>
     \/ /\ attempts' = attempts \cup {<<u, "failed">>}
        /\ sjStatus' = [sjStatus EXCEPT ![u] = "failed"]
        /\ TerminalWrite(u)
        /\ wNotify' = [wNotify EXCEPT ![u] = "owed"]
        /\ wRet' = [wRet EXCEPT ![u] = "done"]
        /\ wpc' = [wpc EXCEPT ![u] = "chk"]
        /\ UNCHANGED <<wText, wExisting>>
     \/ \E x \in Texts :
        /\ attempts' = attempts \cup {<<u, "success">>}
        /\ wText' = [wText EXCEPT ![u] = x]
        /\ wExisting' = [wExisting EXCEPT ![u] = DocExists(ingTheme[sjJob[u]], x)]
        /\ wpc' = [wpc EXCEPT ![u] = "dedup"]
        /\ UNCHANGED <<sjStatus, wRet, wNotify, lastTerm>>
  /\ UNCHANGED <<trigVars, sjJob, docs, newsItems, budget, wIng, faults,
                 incs, overlapTerm, overlapRet>>
  /\ UNCHANGED <<rpc, gdeltVars, uiVars>>

\* worker/scrape/route.ts 162-209: a duplicate is marked skipped, otherwise
\* the ExtractedDocument is created (scrapeJobId is a unique key); the
\* request does not use dedupHash afterwards
WorkerDedup(u) ==
  /\ wpc[u] = "dedup"
  /\ IF wExisting[u]
     THEN /\ sjStatus' = [sjStatus EXCEPT ![u] = "skipped"]
          /\ TerminalWrite(u)
          /\ wNotify' = [wNotify EXCEPT ![u] = "owed"]
          /\ wRet' = [wRet EXCEPT ![u] = "done"]
          /\ wpc' = [wpc EXCEPT ![u] = "chk"]
          /\ UNCHANGED docs
     ELSE /\ \A d \in docs : d.sj # u
          /\ docs' = docs \cup {[sj |-> u, theme |-> ingTheme[sjJob[u]],
                                hash |-> wText[u]]}
          /\ wpc' = [wpc EXCEPT ![u] = "persist"]
          /\ UNCHANGED <<sjStatus, wNotify, wRet, lastTerm>>
  /\ wText' = [wText EXCEPT ![u] = 0]
  /\ UNCHANGED <<trigVars, sjJob, newsItems, attempts, budget, wExisting, wIng,
                 faults, incs, overlapTerm, overlapRet>>
  /\ UNCHANGED <<rpc, gdeltVars, uiVars>>

\* worker/scrape/route.ts 237-256: newsItem.create, then the update to
\* "extracted"; either statement may throw
WorkerPersist(u) ==
  /\ wpc[u] = "persist"
  /\ \/ /\ newsItems' = newsItems \cup {u}
        /\ sjStatus' = [sjStatus EXCEPT ![u] = "extracted"]
        /\ TerminalWrite(u)
        /\ wNotify' = [wNotify EXCEPT ![u] = "owed"]
        /\ wRet' = [wRet EXCEPT ![u] = "budget"]
        /\ wpc' = [wpc EXCEPT ![u] = "chk"]
        /\ UNCHANGED faults
     \/ /\ faults < MaxFaults
        /\ faults' = faults + 1
        /\ newsItems' \in {newsItems, newsItems \cup {u}}
        /\ wpc' = [wpc EXCEPT ![u] = "catch"]
        /\ UNCHANGED <<sjStatus, wNotify, wRet, lastTerm>>
  /\ UNCHANGED <<trigVars, sjJob, docs, attempts, budget, wText, wExisting,
                 wIng, incs, overlapTerm, overlapRet>>
  /\ UNCHANGED <<rpc, gdeltVars, uiVars>>

\* worker/scrape/route.ts 9-51, called at 139, 168, 258 and 296: the read
\* of the job and of its ScrapeJobs, and the decision
WorkerCheckRead(u) ==
  /\ wpc[u] = "chk"
  /\ wNotify' = [wNotify EXCEPT ![u] = "called"]
  /\ \/ /\ wpc' = [wpc EXCEPT ![u] = IF ShouldComplete(wIng[u]) THEN "chkw"
                                     ELSE AfterCheck(u)]
        /\ UNCHANGED faults
     \/ /\ faults < MaxFaults
        /\ faults' = faults + 1
        /\ wpc' = [wpc EXCEPT ![u] = AfterThrow(u)]
  /\ UNCHANGED <<trigVars, sjJob, sjStatus, docs, newsItems, attempts, budget,
                 wText, wExisting, wIng, wRet, histVars>>
  /\ UNCHANGED <<rpc, gdeltVars, uiVars>>

\* worker/scrape/route.ts 33-36 and 53-56: the update to "completed"
WorkerCheckWrite(u) ==
  /\ wpc[u] = "chkw"
  /\ ingStatus' = [ingStatus EXCEPT ![wIng[u]] = "completed"]
  /\ ingCompletedAt' = [ingCompletedAt EXCEPT ![wIng[u]] = TRUE]
  /\ wpc' = [wpc EXCEPT ![u] = AfterCheck(u)]
  /\ UNCHANGED <<ingTheme, tpc, tUsed, tLimit, tUrls, sjJob, sjStatus, docs,
                 newsItems, attempts, budget, wText, wExisting, wIng, wRet,
                 wNotify, faults, histVars>>
  /\ UNCHANGED <<rpc, gdeltVars, uiVars>>

\* the counter raised by two
BudgetIncrement_Twice(b, ceiling) ==
  IF b.exists THEN [b EXCEPT !.used = b.used + 2]
  ELSE [exists |-> TRUE, used |-> 2, limit |-> ceiling]

\* worker/scrape/route.ts 267-278: upsert, create {used: 1} or increment
BudgetIncrement(b, ceiling) ==
  IF b.exists THEN [b EXCEPT !.used = b.used + 1]
  ELSE [exists |-> TRUE, used |-> 1, limit |-> ceiling]

\* worker/scrape/route.ts 260-280: the budget upsert of the success path
WorkerBudget(u) ==
  /\ wpc[u] = "budget"
  /\ \/ /\ \E ceiling \in LatestCeilings :
             budget' = [budget EXCEPT ![ingTheme[sjJob[u]]] =
                          BudgetIncrement(@, ceiling)]
        /\ incs' = [incs EXCEPT ![sjJob[u]] = @ + 1]
        /\ wpc' = [wpc EXCEPT ![u] = "done"]
        /\ UNCHANGED faults
     \/ /\ faults < MaxFaults
        /\ faults' = faults + 1
        /\ wpc' = [wpc EXCEPT ![u] = "catch"]
        /\ UNCHANGED <<budget, incs>>
  /\ UNCHANGED <<trigVars, sjJob, sjStatus, docs, newsItems, attempts,
                 workerLocals, wNotify, overlapTerm, overlapRet, lastTerm>>
  /\ UNCHANGED <<rpc, gdeltVars, uiVars>>

\* worker/scrape/route.ts 281-307: the catch block marks the unit failed
\* and re-checks the parent when ingestionJobId is known; an error of its
\* own update is logged and swallowed
WorkerCatch(u) ==
  /\ wpc[u] = "catch"
  /\ \/ /\ sjStatus' = [sjStatus EXCEPT ![u] = "failed"]
        /\ TerminalWrite(u)
        /\ wNotify' = [wNotify EXCEPT ![u] = "owed"]
        /\ wRet' = [wRet EXCEPT ![u] = "cdone"]
        /\ wpc' = [wpc EXCEPT ![u] = IF wIng[u] # 0 THEN "chk" ELSE "done"]
        /\ UNCHANGED faults
     \/ /\ faults < MaxFaults
        /\ faults' = faults + 1
        /\ wpc' = [wpc EXCEPT ![u] = "done"]
        /\ UNCHANGED <<sjStatus, wNotify, wRet, lastTerm>>
  /\ UNCHANGED <<trigVars, sjJob, docs, newsItems, attempts, budget, wText,
                 wExisting, wIng, incs, overlapTerm, overlapRet>>
  /\ UNCHANGED <<rpc, gdeltVars, uiVars>>

\* --------------------------------------------------- the budget reset

\* budget/reset/route.ts 31-42: upsert, create {used: 0, limit} or
\* update {used: 0}
BudgetResetRow(b, ceiling) ==
  IF b.exists THEN [b EXCEPT !.used = 0]
  ELSE [exists |-> TRUE, used |-> 0, limit |-> ceiling]

\* every counter is reset
ResetTargets_All(t) == BudgetKeys

\* budget/reset/route.ts 32-34: where themeId_date = (theme, today)
ResetTargets(t) == {t}

\* budget/reset/route.ts 15-29: the theme and its newest config are read
ResetStart(t) ==
  /\ rpc[t] = "idle"
  /\ rpc' = [rpc EXCEPT ![t] = "upsert"]
  /\ UNCHANGED <<trigVars, sjJob, sjStatus, docs, newsItems, attempts, budget,
                 wpc, workerLocals, wNotify, faults, histVars, gdeltVars, uiVars>>

\* budget/reset/route.ts 31-44: the upsert and the response
ResetUpsert(t) ==
  /\ rpc[t] = "upsert"
  /\ \E ceiling \in LatestCeilings :
       budget' = [k \in BudgetKeys |->
                    IF k \in ResetTargets(t)
                    THEN BudgetResetRow(budget[k], ceiling)
                    ELSE budget[k]]
  /\ rpc' = [rpc EXCEPT ![t] = "idle"]
  /\ UNCHANGED <<trigVars, sjJob, sjStatus, docs, newsItems, attempts, wpc,
                 workerLocals, wNotify, faults, histVars, gdeltVars, uiVars>>

\* ------------------------------------------- the Aggregator, getGDELTUrls

\* lib/gdelt.ts 1762-1764: termLen, with +4 for " OR " on every term
TermLen(st) == (IF st.quotes THEN st.len + 2 ELSE st.len) + 4

\* lib/gdelt.ts 1761-1775: the loop of batchSubtopics from subtopic k on
RECURSIVE BatchFrom(_, _, _, _, _)
BatchFrom(subs, k, batches, current, currentLen) ==
  IF k > Len(subs)
  THEN IF Len(current) > 0 THEN Append(batches, current) ELSE batches
  ELSE LET st == subs[k]
           close == Len(current) > 0 /\ currentLen + TermLen(st) > MAX_KEYWORD_CHARS
       IN BatchFrom(subs, k + 1,
                    IF close THEN Append(batches, current) ELSE batches,
                    IF close THEN <<st>> ELSE Append(current, st),
                    IF close THEN TermLen(st) ELSE currentLen + TermLen(st))

\* lib/gdelt.ts 1753-1776
batchSubtopics(subs) == BatchFrom(subs, 1, <<>>, <<>>, 0)

\* lib/gdelt.ts 1818-1820: one batch without subtopics when there are none
Batches(subs) == IF Len(subs) > 0 THEN batchSubtopics(subs) ELSE << <<>> >>

\* lib/gdelt.ts 1480-1488: a translated name as it is placed in the query,
\* lower-case and quoted when it is a phrase
PlacedLen(st) == IF st.enQuotes THEN st.enLen + 2 ELSE st.enLen

\* lib/gdelt.ts 1480-1489: the length of the placed names joined by " OR "
RECURSIVE OrExpressionLen(_)
OrExpressionLen(batch) ==
  IF Len(batch) = 0 THEN 0
  ELSE IF Len(batch) = 1 THEN PlacedLen(batch[1])
  ELSE PlacedLen(batch[1]) + 4 + OrExpressionLen(Tail(batch))

\* lib/gdelt.ts 1605-1608: seconds awaited before attempt 2 and attempt 3
Backoff(attempt) == 2 ^ (attempt - 2)

\* lib/gdelt.ts 1671-1674: the last attempt rethrows its error
Exhausted(attempt) == attempt = MaxAttempts

\* every article passes for unseen
Unseen_Always(url, all) == TRUE

\* lib/gdelt.ts 1847: !seenUrls.has(a.url)
Unseen(url, all) == \A k \in DOMAIN all : all[k].url # url

\* lib/gdelt.ts 1846-1851: the articles of the response of batch b, from
\* article k on, appended to allArticles
RECURSIVE Collect(_, _, _, _)
Collect(all, resp, k, b) ==
  IF k > Len(resp) THEN all
  ELSE Collect(IF resp[k] # NoUrl /\ Unseen(resp[k], all)
               THEN Append(all, [url |-> resp[k], batch |-> b])
               ELSE all,
               resp, k + 1, b)

\* the batches whose responses held each URL, the response of batch b added
HeldBy(held, resp, b) ==
  [x \in UrlValues |->
     IF \E k \in DOMAIN resp : resp[k] = x THEN held[x] \cup {b} ELSE held[x]]

\* a failed batch ends the call with its error
LoopAfterFailure_Abort(i, n) == "threw"

\* lib/gdelt.ts 1853-1856: the error of a batch is logged and the loop goes
\* on with the next batch, or leaves the loop after the last
LoopAfterFailure(i, n) == IF i < n THEN "build" ELSE "filter"

\* lib/gdelt.ts 1862-1876: the articles that the http, locale and domain
\* filters keep, `keep` being the URLs whose metadata passes the locale and
\* domain rules
RECURSIVE Filtered(_, _)
Filtered(all, keep) ==
  IF Len(all) = 0 THEN <<>>
  ELSE IF all[1].url \in UrlIds \cap keep
       THEN <<all[1]>> \o Filtered(Tail(all), keep)
       ELSE Filtered(Tail(all), keep)

\* lib/gdelt.ts 1805-1827, called at trigger/route.ts 123: the subtopics of
\* the theme are split into batches
GdeltStart(j) ==
  /\ gpc = "idle"
  /\ tpc[j] = "admitted"
  /\ \E subs \in SubtopicLists : gBatches' = Batches(subs)
  /\ gJob' = j
  /\ gBatch' = 1
  /\ gpc' = "build"
  /\ UNCHANGED <<gAttempt, gAll, gResult, gNow, gReq, gPrevReq, gWaits, gFails,
                 gCall, gHeldBy, gFailedBatches>>
  /\ UNCHANGED <<trigVars, storeVars, wpc, workerLocals, wNotify, faults,
                 histVars, uiVars>>

\* lib/gdelt.ts 1829-1845 and 1603-1617: the query of batch i is built and
\* the first attempt of queryGDELT sends it
GdeltBuild ==
  /\ gpc = "build"
  /\ gAttempt' = 1
  /\ gWaits' = <<>>
  /\ gFails' = 0
  /\ gPrevReq' = gReq
  /\ gReq' = [batch |-> gBatch, attempt |-> 1, at |-> gNow]
  /\ gpc' = "fetch"
  /\ UNCHANGED <<gJob, gBatches, gBatch, gAll, gResult, gNow, gCall, gHeldBy,
                 gFailedBatches>>
  /\ UNCHANGED <<trigVars, storeVars, wpc, workerLocals, wNotify, faults,
                 histVars, uiVars>>

\* lib/gdelt.ts 1639-1667 and 1845-1852: an attempt succeeds, queryGDELT
\* returns its articles and the loop takes the unseen ones
GdeltArticles ==
  /\ gpc = "fetch"
  /\ \E resp \in Responses :
       /\ gAll' = Collect(gAll, resp, 1, gBatch)
       /\ gHeldBy' = HeldBy(gHeldBy, resp, gBatch)
  /\ gCall' = [kind |-> "returned", attempts |-> gAttempt, fails |-> gFails]
  /\ gpc' = IF gBatch < Len(gBatches) THEN "build" ELSE "filter"
  /\ gBatch' = IF gBatch < Len(gBatches) THEN gBatch + 1 ELSE gBatch
  /\ UNCHANGED <<gJob, gBatches, gAttempt, gResult, gNow, gReq, gPrevReq,
                 gWaits, gFails, gFailedBatches>>
  /\ UNCHANGED <<trigVars, storeVars, wpc, workerLocals, wNotify, faults,
                 histVars, uiVars>>

\* lib/gdelt.ts 1611-1637 and 1668-1676, 1853-1855: an attempt fails (a
\* status that is not 2xx, a content type that is not JSON, a network
\* error or the 30 s timeout); the last attempt throws to getGDELTUrls,
\* which logs the error, an earlier one is followed by the backoff timer
\* and the next attempt
GdeltAttemptFails ==
  /\ gpc = "fetch"
  /\ gFails' = gFails + 1
  /\ IF Exhausted(gAttempt)
     THEN /\ gCall' = [kind |-> "threw", attempts |-> gAttempt,
                       fails |-> gFails']
          /\ gFailedBatches' = gFailedBatches + 1
          /\ gpc' = LoopAfterFailure(gBatch, Len(gBatches))
          /\ gBatch' = IF gpc' = "build" THEN gBatch + 1 ELSE gBatch
          /\ UNCHANGED <<gAttempt, gNow, gReq, gPrevReq, gWaits>>
     ELSE /\ gAttempt' = gAttempt + 1
          /\ gNow' = gNow + Backoff(gAttempt + 1)
          /\ gWaits' = Append(gWaits, Backoff(gAttempt + 1))
          /\ gPrevReq' = gReq
          /\ gReq' = [batch |-> gBatch, attempt |-> gAttempt + 1, at |-> gNow']
          /\ UNCHANGED <<gpc, gBatch, gCall, gFailedBatches>>
  /\ UNCHANGED <<gJob, gBatches, gAll, gResult, gHeldBy>>
  /\ UNCHANGED <<trigVars, storeVars, wpc, workerLocals, wNotify, faults,
                 histVars, uiVars>>

\* lib/gdelt.ts 1862-1893: the filters and the returned list; startsWith
\* on a url that is no string throws out of getGDELTUrls
GdeltFilter ==
  /\ gpc = "filter"
  /\ IF \E k \in DOMAIN gAll : gAll[k].url = NonString
     THEN /\ gpc' = "threw"
          /\ UNCHANGED gResult
     ELSE /\ gpc' = "finished"
          /\ \E keep \in SUBSET UrlIds : gResult' = Filtered(gAll, keep)
  /\ UNCHANGED <<gJob, gBatches, gBatch, gAttempt, gAll, gNow, gReq, gPrevReq,
                 gWaits, gFails, gCall, gHeldBy, gFailedBatches>>
  /\ UNCHANGED <<trigVars, storeVars, wpc, workerLocals, wNotify, faults,
                 histVars, uiVars>>

\* trigger/route.ts 123-142 and 161-218: the trigger goes on with the list
\* that getGDELTUrls returned
AggregatorReturn(j) ==
  /\ gpc = "finished"
  /\ gJob = j
  /\ TriggerFetch(j, Len(gResult))

\* trigger/route.ts 143-159: the trigger catches what getGDELTUrls threw
AggregatorThrow(j) ==
  /\ gpc = "threw"
  /\ gJob = j
  /\ TriggerFallback(j)

\* trigger/route.ts 44-78: the only trigger request of the behaviour
FirstTrigger(j, t) ==
  /\ \A k \in Jobs \ {j} : tpc[k] = "idle"
  /\ TriggerAdmit(j, t)

\* ------------------------------------------- the theme's configuration

\* lib/gdelt-sync.ts 33-39: themeConfig.update of the row read as latest
Rebuilt(rows, i, q) == [rows EXCEPT ![i].query = q]

\* themes/[slug]/config/route.ts 188-192: the request reads the newest row
ConfigRead(e) ==
  /\ cReq[e].pc = "idle"
  /\ \E i \in LatestRows :
       cReq' = [cReq EXCEPT ![e] = [pc |-> "create", last |-> cfg[i].version]]
  /\ UNCHANGED <<cfg, statusVars, clientVars>>
  /\ UNCHANGED <<trigVars, storeVars, wpc, workerLocals, wNotify, faults,
                 histVars, gdeltVars>>

\* themes/[slug]/config/route.ts 192-227: version = last + 1 and
\* themeConfig.create with the values of the request
ConfigCreate(e) ==
  /\ cReq[e].pc = "create"
  /\ Len(cfg) < MaxConfigs
  /\ \E c \in Ceilings, q \in Queries :
       cfg' = Append(cfg, [version |-> cReq[e].last + 1, ceiling |-> c,
                           query |-> q])
  /\ cReq' = [cReq EXCEPT ![e] = [pc |-> "idle", last |-> 0]]
  /\ UNCHANGED <<statusVars, clientVars>>
  /\ UNCHANGED <<trigVars, storeVars, wpc, workerLocals, wNotify, faults,
                 histVars, gdeltVars>>

\* themes/[slug]/subtopics/route.ts 84-95 with lib/gdelt-sync.ts 9-45: a
\* subtopic is created, updated or deleted and the query built from the
\* subtopics is stored in the newest config
SubtopicChange(q) ==
  /\ \E i \in LatestRows : cfg' = Rebuilt(cfg, i, q)
  /\ UNCHANGED <<cReq, statusVars, clientVars>>
  /\ UNCHANGED <<trigVars, storeVars, wpc, workerLocals, wNotify, faults,
                 histVars, gdeltVars>>

\* themes/[slug]/budget/route.ts 22-44: the response of the budget endpoint
\* for a config row read with the given ceiling
BudgetGet(t, ceiling) ==
  LET limit == ceiling
      used == IF budget[t].exists THEN budget[t].used ELSE 0
  IN [used |-> used, limit |-> limit, remaining |-> Max(0, limit - used)]

\* --------------------------------------------------- the polling client

\* extraction-progress-context.tsx 82: prevSlug === slug ? null : prevSlug
SlugAfterHide(slug, job, t) == IF slug = t.slug THEN 0 ELSE slug

\* extraction-progress-context.tsx 90-98: the effect starts an interval
Polling == uJob # 0 /\ uSlug # 0 /\ uStatus \notin TerminalJob

\* theme page triggerIngestion with extraction-progress-context.tsx
\* 110-126: the trigger answered with the id of a job that is running, or
\* completed when it has no unit; startExtraction shows it and fetches its
\* status at once (jobs are started in the order of their ids)
StartExtraction(j, s) ==
  /\ uServer[j] = "none"
  /\ \A k \in ClientJobs : k < j => uServer[k] # "none"
  /\ \E st \in {"running", "completed"} : uServer' = [uServer EXCEPT ![j] = st]
  /\ uSlug' = s
  /\ uJob' = j
  /\ uStatus' = "pending"
  /\ uFetches' = uFetches \cup {[job |-> j, slug |-> s]}
  /\ UNCHANGED uTimers
  /\ UNCHANGED <<trigVars, storeVars, wpc, workerLocals, wNotify, faults,
                 histVars, gdeltVars, statusVars, configVars>>

\* worker/scrape/route.ts 43-56: the re-check completes the running job
JobCompletes(j) ==
  /\ uServer[j] = "running"
  /\ uServer' = [uServer EXCEPT ![j] = "completed"]
  /\ UNCHANGED <<uJob, uStatus, uSlug, uTimers, uFetches>>
  /\ UNCHANGED <<trigVars, storeVars, wpc, workerLocals, wNotify, faults,
                 histVars, gdeltVars, statusVars, configVars>>

\* extraction-progress-context.tsx 100-105: the interval fires
IntervalTick ==
  /\ Polling
  /\ uFetches' = uFetches \cup {[job |-> uJob, slug |-> uSlug]}
  /\ UNCHANGED <<uJob, uStatus, uSlug, uTimers, uServer>>
  /\ UNCHANGED <<trigVars, storeVars, wpc, workerLocals, wNotify, faults,
                 histVars, gdeltVars, statusVars, configVars>>

\* extraction-progress-context.tsx 46-84: the response of a status request
\* replaces the shown progress, and a completed or failed one schedules
\* the hide timer
FetchResponds(f) ==
  /\ f \in uFetches
  /\ uFetches' = uFetches \ {f}
  /\ uJob' = f.job
  /\ uStatus' = uServer[f.job]
  /\ uTimers' = IF uServer[f.job] \in TerminalJob THEN uTimers \cup {f}
                ELSE uTimers
  /\ UNCHANGED <<uSlug, uServer>>
  /\ UNCHANGED <<trigVars, storeVars, wpc, workerLocals, wNotify, faults,
                 histVars, gdeltVars, statusVars, configVars>>

\* extraction-progress-context.tsx 47-49 and 85-87: the request fails and
\* the error is logged
FetchFails(f) ==
  /\ f \in uFetches
  /\ uFetches' = uFetches \ {f}
  /\ UNCHANGED <<uJob, uStatus, uSlug, uTimers, uServer>>
  /\ UNCHANGED <<trigVars, storeVars, wpc, workerLocals, wNotify, faults,
                 histVars, gdeltVars, statusVars, configVars>>

\* extraction-progress-context.tsx 70-83: the hide timer fires 5 s after
\* the completed or failed response
HideTimer(t) ==
  /\ t \in uTimers
  /\ uTimers' = uTimers \ {t}
  /\ uJob' = IF uJob = t.job THEN 0 ELSE uJob
  /\ uSlug' = SlugAfterHide(uSlug, uJob, t)
  /\ UNCHANGED <<uStatus, uFetches, uServer>>
  /\ UNCHANGED <<trigVars, storeVars, wpc, workerLocals, wNotify, faults,
                 histVars, gdeltVars, statusVars, configVars>>

\* ------------------------------------------------- the status endpoint

Less(a, b) == a.num * b.den < b.num * a.den
Leq(a, b) == a.num * b.den <= b.num * a.den
FracEq(a, b) == a.num * b.den = b.num * a.den
FracMin(a, b) == IF Leq(a, b) THEN a ELSE b
FracMax(a, b) == IF Leq(a, b) THEN b ELSE a

\* only extracted units count as completed
CompletedJobs_ExtractedOnly(units) == units["extracted"]

\* status/route.ts 41-43
CompletedJobs(units) == units["extracted"] + units["skipped"]

\* status/route.ts 57-68: let progress
RawProgress(total, done, scraping, pending) ==
  IF total > 0
  THEN IF scraping > 0 /\ done = 0 THEN Frac(5, 1)
       ELSE IF pending > 0 /\ scraping = 0 /\ done = 0 THEN Frac(2, 1)
       ELSE Frac(100 * done, total)
  ELSE Frac(0, 1)

\* status/route.ts 40-68 and 98-110: the response computed from the
\* ScrapeJob rows read with the job
StatusResponse(units) ==
  LET totalJobs == units["pending"] + units["scraping"] + units["extracted"]
                   + units["skipped"] + units["failed"]
      completedJobs == CompletedJobs(units)
      failedJobs == units["failed"]
      scrapingJobs == units["scraping"]
      pendingJobs == units["pending"]
      doneJobs == completedJobs + failedJobs
      progress == RawProgress(totalJobs, doneJobs, scrapingJobs, pendingJobs)
  IN [progress |-> FracMin(Frac(100, 1), FracMax(Frac(0, 1), progress)),
      totalJobs |-> totalJobs, completedJobs |-> completedJobs,
      failedJobs |-> failedJobs, scrapingJobs |-> scrapingJobs,
      pendingJobs |-> pendingJobs]

Moved(units, from, to) ==
  [units EXCEPT ![from] = @ - 1, ![to] = @ + 1]

\* trigger/route.ts 185-195: the ScrapeJobs of the run are created pending
UnitsCreated(n) ==
  /\ vUnits = NoUnits
  /\ vUnits' = [NoUnits EXCEPT !["pending"] = n]
  /\ UNCHANGED vProgress
  /\ UNCHANGED <<trigVars, storeVars, wpc, workerLocals, wNotify, faults,
                 histVars, gdeltVars, configVars, clientVars>>

\* worker/scrape/route.ts 85-88, 134-137, 163-166, 253-256 and 290-293: a
\* worker writes the next status of its unit; the catch block writes
\* failed over any status
UnitAdvances(from, to) ==
  /\ vUnits[from] > 0
  /\ \/ from = "pending" /\ to \in {"scraping", "failed"}
     \/ from = "scraping" /\ to \in {"extracted", "skipped", "failed"}
     \/ from \in {"extracted", "skipped"} /\ to = "failed"
  /\ vUnits' = Moved(vUnits, from, to)
  /\ UNCHANGED vProgress
  /\ UNCHANGED <<trigVars, storeVars, wpc, workerLocals, wNotify, faults,
                 histVars, gdeltVars, configVars, clientVars>>

\* status/route.ts 5-111: one poll of the job
StatusGet ==
  /\ vProgress' = StatusResponse(vUnits).progress
  /\ UNCHANGED vUnits
  /\ UNCHANGED <<trigVars, storeVars, wpc, workerLocals, wNotify, faults,
                 histVars, gdeltVars, configVars, clientVars>>

Next ==
  \/ \E j \in Jobs, t \in Themes : TriggerAdmit(j, t)
  \/ \E j \in Jobs, n \in 0..MaxUrls : TriggerFetch(j, n)
  \/ \E j \in Jobs : TriggerFallback(j)
  \/ \E j \in Jobs : TriggerSetRunning(j)
  \/ \E u \in Units : WorkerStart(u)
  \/ \E u \in Units : WorkerExtract(u)
  \/ \E u \in Units : WorkerDedup(u)
  \/ \E u \in Units : WorkerPersist(u)
  \/ \E u \in Units : WorkerCheckRead(u)
  \/ \E u \in Units : WorkerCheckWrite(u)
  \/ \E u \in Units : WorkerBudget(u)
  \/ \E u \in Units : WorkerCatch(u)
  \/ \E t \in Themes : ResetStart(t)
  \/ \E t \in Themes : ResetUpsert(t)

Spec == Init /\ [][Next]_vars

\* the behaviours in which no database call and no dispatch request throws
\* (extractArticle may still throw, time out or return no result)
SpecReliable == Init /\ [][Next /\ faults' = faults]_vars

\* one trigger request with the call of the Aggregator it makes, step by
\* step
NextGdelt ==
  \/ \E j \in Jobs, t \in Themes : FirstTrigger(j, t)
  \/ \E j \in Jobs : GdeltStart(j)
  \/ GdeltBuild
  \/ GdeltArticles
  \/ GdeltAttemptFails
  \/ GdeltFilter
  \/ \E j \in Jobs : AggregatorReturn(j)
  \/ \E j \in Jobs : AggregatorThrow(j)
  \/ \E j \in Jobs : TriggerSetRunning(j)

SpecGdelt == Init /\ [][NextGdelt]_vars

\* one job, its units advancing, and the polls of its status
NextStatus ==
  \/ \E n \in PollTotals : UnitsCreated(n)
  \/ \E from \in UnitStatuses, to \in UnitStatuses : UnitAdvances(from, to)
  \/ StatusGet

\* the counter of the day plays no part in the status endpoint
InitStatus == Init /\ \A t \in Themes : ~budget[t].exists

SpecStatus == InitStatus /\ [][NextStatus]_vars

\* the theme's configuration is edited while runs are triggered and the
\* counter of the day is reset
NextConfig ==
  \/ \E e \in Editors : ConfigRead(e)
  \/ \E e \in Editors : ConfigCreate(e)
  \/ \E q \in Queries : SubtopicChange(q)
  \/ \E j \in Jobs, t \in Themes : TriggerAdmit(j, t)
  \/ \E t \in Themes : ResetStart(t)
  \/ \E t \in Themes : ResetUpsert(t)

SpecConfig == Init /\ [][NextConfig]_vars

\* the browser session: jobs are started and polled
NextClient ==
  \/ \E j \in ClientJobs, s \in Slugs : StartExtraction(j, s)
  \/ \E j \in ClientJobs : JobCompletes(j)
  \/ IntervalTick
  \/ \E f \in uFetches : FetchResponds(f)
  \/ \E f \in uFetches : FetchFails(f)
  \/ \E t \in uTimers : HideTimer(t)

SpecClient == InitStatus /\ [][NextClient]_vars

\* ------------------------------------------------------------ properties

TypeOK ==
  /\ ingStatus \in [Jobs -> {"none", "pending", "running", "completed", "failed"}]
  /\ sjStatus \in [Units -> {"none", "pending", "scraping"} \cup TerminalUnit]
  /\ sjJob \in [Units -> 0..MaxJobs]
  /\ faults \in 0..MaxFaults
  /\ \A t \in Themes : budget[t].used \in 0..(DailyLimit + MaxUnits)

\* the trigger of job j and every worker request it dispatched have returned
RunFinished(j) ==
  /\ tpc[j] = "done"
  /\ \A u \in UnitsOf(j) : Returned(u)

DocsOf(j) == {d \in docs : sjJob[d.sj] = j}

\* C1: a job with N >= 1 ScrapeJobs whose units are all terminal ends
\* completed: once its trigger and all its worker requests have returned,
\* so that no step on the job is left, it is completed.
C1_JobCompletes ==
  \A j \in Jobs :
    (/\ RunFinished(j)
     /\ UnitsOf(j) # {}
     /\ \A u \in UnitsOf(j) : sjStatus[u] \in TerminalUnit)
    => ingStatus[j] = "completed"

\* C2: a completed IngestionJob has no ScrapeJob in pending or scraping.
C2_CompletedHasOnlyTerminalUnits ==
  \A j \in Jobs :
    ingStatus[j] = "completed" =>
      \A u \in UnitsOf(j) : sjStatus[u] \in TerminalUnit

\* a job with two ScrapeJobs was completed by the re-check of a worker
C2_Witness ==
  \E j \in Jobs :
    /\ ingStatus[j] = "completed"
    /\ ingCompletedAt[j]
    /\ Cardinality(UnitsOf(j)) >= 2

\* C3: no ScrapeJob is left in pending or scraping: once the worker request
\* of a unit has returned or its dispatch has failed, the unit is terminal.
C3_UnitEndsTerminal ==
  \A u \in Units :
    (sjJob[u] # 0 /\ Returned(u)) => sjStatus[u] \in TerminalUnit

\* C4: a worker request that wrote a terminal status has invoked the parent
\* re-check after its last terminal write by the time it returns.
C4_TerminalWriteNotifiesParent ==
  \A u \in Units : wpc[u] = "done" => wNotify[u] # "owed"

\* C5: a ScrapeJob's status only moves pending -> scraping -> extracted,
\* failed or skipped, so that no step changes the status of a unit that is
\* extracted, failed or skipped.
C5_TerminalUnitStatusIsFinal ==
  [][\A u \in Units :
       sjStatus[u] \in TerminalUnit => sjStatus'[u] = sjStatus[u]]_vars

JobRank(st) ==
  CASE st = "none" -> 0
    [] st = "pending" -> 1
    [] st = "running" -> 2
    [] OTHER -> 3

\* C6: an IngestionJob's status only moves forward along pending ->
\* running -> completed/failed, and a completed or failed job keeps its
\* status.
C6_JobStatusForwardOnly ==
  [][\A j \in Jobs :
       /\ JobRank(ingStatus[j]) <= JobRank(ingStatus'[j])
       /\ ingStatus[j] \in TerminalJob => ingStatus'[j] = ingStatus[j]]_vars

\* a job is completed while a concurrent re-check of the same job is about
\* to apply the completed transition a second time
C6_Witness ==
  \E j \in Jobs, u \in Units :
    /\ ingStatus[j] = "completed"
    /\ wpc[u] = "chkw"
    /\ wIng[u] = j

\* C7: no two ExtractedDocuments of the same theme have the same dedupHash.
C7_FingerprintUniquePerTheme ==
  \A d1, d2 \in docs :
    (d1 # d2 /\ d1.theme = d2.theme) => d1.hash # d2.hash

\* C8: once a run has finished, the increase of used caused by its workers
\* equals the number of ExtractedDocuments the run created.
C8_IncrementPerDocument ==
  \A j \in Jobs : RunFinished(j) => incs[j] = Cardinality(DocsOf(j))

BudgetWithinLimit ==
  \A t \in Themes : budget[t].exists => budget[t].used <= budget[t].limit

RECURSIVE SumOver(_, _)
SumOver(S, f) ==
  IF S = {} THEN 0
  ELSE LET x == CHOOSE y \in S : TRUE IN f[x] + SumOver(S \ {x}, f)

Admitted(t) == {j \in Jobs : ingStatus[j] # "none" /\ ingTheme[j] = t}

\* what run j was allowed at its admission check: limit - used as it read them
Allowance == [j \in Jobs |-> tLimit[j] - tUsed[j]]

C11_ExhaustedBudgetRejects ==
  \A j \in Jobs :
    (tpc[j] # "idle" /\ tUsed[j] >= tLimit[j]) =>
      /\ tpc[j] = "rejected"
      /\ ingStatus[j] = "none"
      /\ UnitsOf(j) = {}

\* a trigger was rejected on the counter that the extraction of an earlier
\* run had just raised to the limit
C11_Witness ==
  \E j, k \in Jobs :
    /\ j < k
    /\ incs[j] >= 1
    /\ tUsed[j] = tLimit[j] - 1
    /\ tpc[k] = "rejected"
    /\ tUsed[k] = tLimit[k]
    /\ ingStatus[k] = "none"

\* C12: the number of ScrapeJobs one trigger creates is at most limit - used
\* as that trigger read them at its admission check, and at most the number
\* of URLs in its candidate list, the mock list of the fallback included.
C12_UnitsWithinAllowanceAndCandidates ==
  \A j \in Jobs :
    /\ Cardinality(UnitsOf(j)) <= tLimit[j] - tUsed[j]
    /\ Cardinality(UnitsOf(j)) <= tUrls[j]

\* a trigger found more candidates than it was allowed and created exactly
\* its allowance of ScrapeJobs
C12_Witness ==
  \E j \in Jobs :
    /\ tUrls[j] > tLimit[j] - tUsed[j]
    /\ Cardinality(UnitsOf(j)) = tLimit[j] - tUsed[j]
    /\ Cardinality(UnitsOf(j)) >= 1

\* C13: a worker request that found an ExtractedDocument of the theme with
\* its dedupHash marks its ScrapeJob skipped at the duplicate branch, and
\* none of its steps creates an ExtractedDocument or a NewsItem or changes
\* DailyBudgetUsage.
C13_DuplicateSkippedWithoutEffects ==
  [][\A u \in Units :
       (wExisting[u] /\ wpc'[u] # wpc[u]) =>
         /\ docs' = docs
         /\ newsItems' = newsItems
         /\ budget' = budget
         /\ wpc[u] = "dedup" => sjStatus'[u] = "skipped"]_vars

\* a request that found a duplicate has returned and left its unit skipped
C13_Witness ==
  \E u \in Units :
    /\ wExisting[u]
    /\ wpc[u] = "done"
    /\ sjStatus[u] = "skipped"
    /\ \A d \in docs : d.sj # u

\* C14: a trigger whose list of URLs to process is empty has set its job
\* to completed when it responds, and has created no ScrapeJob and
\* dispatched no worker; a job without ScrapeJobs is pending or running only
\* while its trigger is still at the candidate query.
C14_EmptyRunCompletesAtOnce ==
  \A j \in Jobs :
    /\ (tpc[j] = "done" /\ Min(tUrls[j], tLimit[j] - tUsed[j]) = 0) =>
         /\ ingStatus[j] = "completed"
         /\ UnitsOf(j) = {}
    /\ (UnitsOf(j) = {} /\ ingStatus[j] \in {"pending", "running"}) =>
         tpc[j] = "admitted"

\* a trigger found no candidate and responded with its job completed
C14_Witness ==
  \E j \in Jobs :
    /\ tpc[j] = "done"
    /\ tUrls[j] = 0
    /\ ingStatus[j] = "completed"
    /\ UnitsOf(j) = {}

\* the loop over the batches is over
LoopDone == gpc \in {"filter", "finished", "threw"}

\* the queryGDELT call of every batch threw
AllBatchesFailed == LoopDone /\ gFailedBatches = Len(gBatches)

CallEnded == gpc \in {"build", "filter", "finished", "threw"} /\ gCall.kind # "none"

\* C16: queryGDELT makes at most 3 attempts per call, with the backoff
\* delays 1 s, 2 s and 4 s, returns at the first attempt that succeeds, and
\* throws when all its attempts have failed: a call that threw has made 3
\* attempts, all failed, and has waited 1 s, 2 s and 4 s.
C16_RetryWithBackoff ==
  /\ gAttempt <= MaxAttempts
  /\ (CallEnded /\ gCall.kind = "returned") => gCall.fails = gCall.attempts - 1
  /\ (CallEnded /\ gCall.kind = "threw") =>
       /\ gCall.attempts = MaxAttempts
       /\ gCall.fails = MaxAttempts
       /\ gWaits = <<1, 2, 4>>

\* the delay between batch queries of the debugging notes, in seconds
InterBatchDelay == 5

\* C17: between the request of one batch and the request of the next batch
\* of the same call, getGDELTUrls has waited at least the inter-batch delay.
C17_BatchRequestsSpaced ==
  (gPrevReq.batch # 0 /\ gPrevReq.batch # gReq.batch) =>
    gReq.at - gPrevReq.at >= InterBatchDelay

\* C18: for every list of subtopics, the OR-expression that the query of
\* each batch carries (the names as placed in the query, joined by " OR ")
\* is at most 200 characters long.
C18_ExpressionWithinCeiling ==
  \A k \in DOMAIN gBatches :
    OrExpressionLen(gBatches[k]) <= MAX_KEYWORD_CHARS

\* C19: the list that getGDELTUrls returns holds each URL at most once, and
\* the record it holds for a URL is the one of the first batch whose
\* response held that URL.
C19_OutputUniqueKeepsFirst ==
  gpc = "finished" =>
    /\ \A a, b \in DOMAIN gResult :
         a # b => gResult[a].url # gResult[b].url
    /\ \A a \in DOMAIN gResult :
         /\ gResult[a].batch \in gHeldBy[gResult[a].url]
         /\ \A b \in gHeldBy[gResult[a].url] : gResult[a].batch <= b

\* two batches returned the same URL and the returned list holds it once,
\* with the record of the first batch
C19_Witness ==
  /\ gpc = "finished"
  /\ \E a \in DOMAIN gResult :
       /\ Cardinality(gHeldBy[gResult[a].url]) = 2
       /\ gResult[a].batch = 1
       /\ \A b \in DOMAIN gResult : gResult[b].url = gResult[a].url => b = a

\* C20: the step in which a budget reset request answers leaves used = 0 in
\* the theme's counter of today with the limit that counter had, and
\* changes no other counter, no IngestionJob, no ScrapeJob, no
\* ExtractedDocument and no NewsItem.
C20_ResetOnlyZeroesUsed ==
  [][\A t \in Themes :
       (rpc[t] = "upsert" /\ rpc'[t] = "idle") =>
         /\ budget'[t].exists /\ budget'[t].used = 0
         /\ budget[t].exists => budget'[t].limit = budget[t].limit
         /\ \A k \in BudgetKeys \ {t} : budget'[k] = budget[k]
         /\ UNCHANGED <<ingStatus, ingTheme, ingCompletedAt, sjJob, sjStatus,
                        docs, newsItems, attempts>>]_vars

\* the counter that a worker of the theme had raised is back at 0 and keeps
\* its limit, while the other counter is still used up
C20_Witness ==
  \E t \in Themes, j \in Jobs :
    /\ ingTheme[j] = t
    /\ incs[j] >= 1
    /\ rpc[t] = "idle"
    /\ budget[t] = [exists |-> TRUE, used |-> 0, limit |-> DailyLimit]
    /\ budget["other"] = OtherRow

\* the units of the polled job that are done: extracted, skipped or failed
DoneUnits == vUnits["extracted"] + vUnits["skipped"] + vUnits["failed"]
TotalUnits == DoneUnits + vUnits["pending"] + vUnits["scraping"]

\* C21: the status response has progress = 100 * done / total, except 5
\* when some unit is scraping and none is done and 2 when units exist but
\* none is scraping or done; progress is within 0..100 and above 0 when the
\* job has a unit; the pending, scraping, completed and failed counts add
\* up to total.
C21_ProgressValue ==
  LET r == StatusResponse(vUnits) IN
  /\ r.totalJobs = TotalUnits
  /\ TotalUnits > 0 =>
       FracEq(r.progress,
              IF vUnits["scraping"] > 0 /\ DoneUnits = 0 THEN Frac(5, 1)
              ELSE IF vUnits["scraping"] = 0 /\ DoneUnits = 0 THEN Frac(2, 1)
              ELSE Frac(100 * DoneUnits, TotalUnits))
  /\ r.progress.den > 0
  /\ Leq(Frac(0, 1), r.progress) /\ Leq(r.progress, Frac(100, 1))
  /\ TotalUnits > 0 => Less(Frac(0, 1), r.progress)
  /\ r.pendingJobs + r.scrapingJobs + r.completedJobs + r.failedJobs
       = r.totalJobs

\* a poll answered a share of done units that is no whole percentage while
\* a skipped and a failed unit are counted
C21_Witness ==
  /\ vProgress = StatusResponse(vUnits).progress
  /\ vUnits["skipped"] > 0 /\ vUnits["failed"] > 0 /\ vUnits["pending"] > 0
  /\ (100 * DoneUnits) % TotalUnits # 0

\* C30: for one job, the progress of a status response is never below the
\* progress of the response before it.
C30_ProgressNeverDecreases ==
  [][vProgress # NoProgress => Leq(vProgress, vProgress')]_vars

\* C22: when the job was running at the last terminal write of its units,
\* one of the re-checks that follow the terminal writes sees every sibling
\* terminal, whatever the interleaving, so the job is completed once its
\* requests have returned; a second write of completed leaves completed.
C22_ConcurrentLastUnitsComplete ==
  /\ [](\A j \in Jobs :
          (RunFinished(j) /\ UnitsOf(j) # {} /\ lastTerm[j])
            => ingStatus[j] = "completed")
  /\ [][\A j \in Jobs :
          ingStatus[j] = "completed" => ingStatus'[j] = "completed"]_vars

\* both units of a job were terminal when each worker read them: the job
\* is completed by one re-check while the other is about to write completed
C22_Witness ==
  \E j \in Jobs, u \in Units :
    /\ wIng[u] = j /\ wpc[u] = "chkw"
    /\ ingStatus[j] = "completed"
    /\ lastTerm[j]
    /\ Cardinality(UnitsOf(j)) = MaxUnits

\* C23: every ScrapeJob whose status is failed has an ExtractionAttempt
\* record with status failed.
C23_FailedUnitHasFailedAttempt ==
  \A u \in Units : sjStatus[u] = "failed" => <<u, "failed">> \in attempts

\* C24: no ThemeConfig row changes after its creation, and every row that
\* is added has the highest version before it + 1.
C24_ConfigRowsImmutable ==
  [][/\ \A i \in DOMAIN cfg : i \in DOMAIN cfg' /\ cfg'[i] = cfg[i]
     /\ Len(cfg') > Len(cfg) =>
          \A i \in LatestRows : cfg'[Len(cfg')].version = cfg[i].version + 1]_vars

\* C26: the trigger's admission uses the ceiling of the newest config: the
\* limit it admits against is that ceiling, and its remaining capacity is
\* the value the budget endpoint reports in the same state.
C26_AdmissionUsesConfiguredCeiling ==
  [][\A j \in Jobs :
       (tpc[j] = "idle" /\ tpc'[j] # "idle") =>
         \E c \in LatestCeilings :
           /\ tLimit'[j] = c
           /\ Max(0, tLimit'[j] - tUsed'[j]) = BudgetGet(ingTheme'[j], c).remaining]_vars

\* C25: the list that getGDELTUrls returns to the trigger holds at most
\* limit = maxUrls candidates.
C25_AggregatorHonoursLimit ==
  (gpc = "finished" /\ gJob # 0) =>
    \E c \in LatestCeilings : Len(gResult) <= MaxUrlsOf(gJob, c)

\* C27: once the worker request of a ScrapeJob has finished, the unit is
\* extracted exactly when it owns an ExtractedDocument.
C27_ExtractedIffDocument ==
  \A u \in Units :
    wpc[u] = "done" => (sjStatus[u] = "extracted" <=> \E d \in docs : d.sj = u)

\* C28: an IngestionJob whose status is completed has completedAt set.
C28_CompletedHasTimestamp ==
  \A j \in Jobs : ingStatus[j] = "completed" => ingCompletedAt[j]

\* C29: the hide timer of an earlier job, also one of the same slug, does
\* not stop the polling of the job that is shown when it fires.
C29_HideTimerKeepsNewerJobPolled ==
  [][\A t \in uTimers :
       (uTimers' = uTimers \ {t} /\ uJob # t.job /\ Polling) => Polling']_vars

====
